---- MODULE Spec2Model ----
(***************************************************************************)
(* A model of playon_requeue.py: the filter predicate of build_where, the  *)
(* rank allocation of compute_insert_ranks and the run of requeue_items    *)
(* (query, limit, ranks, dry run, prompt, backup, transaction) against the *)
(* RecordQueueItems table of recording.db.                                 *)
(*                                                                         *)
(* Conventions.                                                            *)
(*  - A nullable column or option holds NULL (the empty tuple) or          *)
(*    Some(v) (the one-element tuple <<v>>).                               *)
(*  - Text is a sequence of one-character strings.  "E'" and "e'" stand    *)
(*    for the letters U+00C9 and U+00E9 (capital and small e with acute),  *)
(*    a pair outside ASCII.                                                *)
(*  - Rank is a REAL column; the model holds ranks in thousandths, so      *)
(*    rank 1.0 is 1000 and the step 0.001 of position "after" is 1.        *)
(*  - An instant is a number of 0..MaxTime.  strftime renders it with the  *)
(*    date digits first; the model keeps two digits and the separator,     *)
(*    whose place is what distinguishes the two formats the code uses.     *)
(***************************************************************************)
EXTENDS Integers, Sequences, FiniteSets, TLC

VARIABLES
    before,      \* the table as it was when the run started
    table,       \* the committed contents of RecordQueueItems: ID -> row
    work,        \* the contents as seen through the connection (uncommitted)
    in_txn,      \* TRUE while the connection has an open transaction
    args,        \* the parsed command line (argparse namespace)
    pc,          \* position of the run inside requeue_items
    to_promote,  \* the candidate IDs, in query order
    ranks,       \* the ranks computed for the candidates
    idx,         \* number of UPDATE statements already executed
    confirm,     \* the line read at the prompt
    utc_now,     \* the stamp written to Queued and Updated
    events,      \* the externally visible steps of the run, in order
    outcome      \* how the run ended

vars == <<before, table, work, in_txn, args, pc, to_promote, ranks, idx, confirm,
          utc_now, events, outcome>>

-----------------------------------------------------------------------------
(* Bounds of the model *)

NRows == 3
MaxTime == 2
MaxLimit == 1
MaxTitles == 1

-----------------------------------------------------------------------------
(* Options *)

NULL == <<>>

Some(v) == <<v>>

Val(o) == o[1]

-----------------------------------------------------------------------------
(* Text *)

AsciiUpper == <<"A", "B", "D", "E", "H", "I", "K", "M", "N", "O", "R", "S", "T",
               "W", "Y">>

AsciiLower == <<"a", "b", "d", "e", "h", "i", "k", "m", "n", "o", "r", "s", "t",
               "w", "y">>

UnicodeUpper == AsciiUpper \o <<"E'">>

UnicodeLower == AsciiLower \o <<"e'">>

IndexOf(c, s) == IF \E i \in 1..Len(s) : s[i] = c
                 THEN CHOOSE i \in 1..Len(s) : s[i] = c
                 ELSE 0

\* str.lower() of Python: every cased letter of Unicode is folded.
PyLowerChar(c) ==
    LET i == IndexOf(c, UnicodeUpper) IN IF i > 0 THEN UnicodeLower[i] ELSE c

PyLower(s) == [i \in 1..Len(s) |-> PyLowerChar(s[i])]

\* lower() of SQLite: only the letters of ASCII are folded.
SqlLowerChar(c) ==
    LET i == IndexOf(c, AsciiUpper) IN IF i > 0 THEN AsciiLower[i] ELSE c

SqlLower(s) == [i \in 1..Len(s) |-> SqlLowerChar(s[i])]

Digits == <<"0", "1", "2", "3", "4", "5", "6", "7", "8", "9">>

\* The code point of a character of a timestamp.
Ord(c) == CASE c = " " -> 32
            [] c = "-" -> 45
            [] c = ":" -> 58
            [] OTHER   -> 47 + IndexOf(c, Digits)

\* s < t for text, as SQLite's BINARY collation compares it.
RECURSIVE TextLess(_, _)
TextLess(s, t) ==
    IF t = <<>> THEN FALSE
    ELSE IF s = <<>> THEN TRUE
    ELSE IF Ord(Head(s)) # Ord(Head(t)) THEN Ord(Head(s)) < Ord(Head(t))
    ELSE TextLess(Tail(s), Tail(t))

TextGeq(s, t) == ~TextLess(s, t)

-----------------------------------------------------------------------------
(* Instants and their renderings *)

Time == 0..MaxTime

\* strftime("%Y-%m-%d %H:%M:%S"): the format of the table's text timestamps.
FormatDashed(t) == <<Digits[(t \div 10) + 1], "-", Digits[(t % 10) + 1]>>

\* strftime("%Y%m%d-%H%M%S"): the compact format of STAMP and utc_now.
FormatCompact(t) == <<Digits[(t \div 10) + 1], Digits[(t % 10) + 1], "-">>

-----------------------------------------------------------------------------
(* Rows of RecordQueueItems *)

IDs == 1..NRows

Queued == 0

Active == 1

Partial == 3

Failed == 4

Unit == 1000

\* A variant of Live that counts every row as live, whatever its status.
LiveAnyStatus(t) == DOMAIN t

Live(t) == {i \in DOMAIN t : t[i].Status \in {Queued, Active}}

\* The columns the program writes.
Written(r) == <<r.Status, r.Rank, r.Error, r.Updated, r.Queued>>

\* The columns the program never writes.
Shape(r) == <<r.Name, r.SeriesTitle, r.Season, r.EpisodeNumber>>

-----------------------------------------------------------------------------
(* build_where: the WHERE clause and its bound parameters *)

\* A variant of StatusCodes that selects Partial rows unasked.
StatusCodesBoth(a) == <<Failed, Partial>>

StatusCodes(a) == <<Failed>> \o (IF a.include_partial THEN <<Partial>> ELSE <<>>)

RECURSIVE TitleParams(_)
TitleParams(titles) ==
    IF titles = <<>> THEN <<>>
    ELSE <<PyLower(Head(titles)), PyLower(Head(titles))>>
         \o TitleParams(Tail(titles))

\* A variant of WhereClauses that writes the titles into the text of the
\* title clause instead of leaving placeholders for them.
WhereClausesSpliced(a) ==
    <<[kind |-> "status_in", n |-> Len(StatusCodes(a))]>>
    \o (IF a.title # <<>>
        THEN <<[kind |-> "title_any", n |-> 2 * Len(a.title),
                text |-> a.title]>> ELSE <<>>)
    \o (IF a.movies_only THEN <<[kind |-> "movie", n |-> 0]>> ELSE <<>>)
    \o (IF a.since_dt # NULL THEN <<[kind |-> "since", n |-> 1]>> ELSE <<>>)

\* The clauses, in the order build_where appends them; n counts the
\* placeholders of the clause.
WhereClauses(a) ==
    <<[kind |-> "status_in", n |-> Len(StatusCodes(a))]>>
    \o (IF a.title # <<>>
        THEN <<[kind |-> "title_any", n |-> 2 * Len(a.title)]>> ELSE <<>>)
    \o (IF a.movies_only THEN <<[kind |-> "movie", n |-> 0]>> ELSE <<>>)
    \o (IF a.since_dt # NULL THEN <<[kind |-> "since", n |-> 1]>> ELSE <<>>)

WhereParams(a) ==
    StatusCodes(a)
    \o TitleParams(a.title)
    \o (IF a.since_dt # NULL THEN <<FormatDashed(Val(a.since_dt))>> ELSE <<>>)

build_where(a) == [clauses |-> WhereClauses(a), params |-> WhereParams(a)]

\* One clause of the WHERE, evaluated by SQLite on row r with its
\* parameters p; a comparison with NULL is not true.
ClauseHolds(c, p, r) ==
    CASE c.kind = "status_in" ->
            \E k \in 1..c.n : r.Status = p[k]
      [] c.kind = "title_any" ->
            \E j \in 1..(c.n \div 2) :
               \/ r.SeriesTitle # NULL
                  /\ SqlLower(Val(r.SeriesTitle)) = p[2 * j - 1]
               \/ r.Name # NULL
                  /\ SqlLower(Val(r.Name)) = p[2 * j]
      [] c.kind = "movie" ->
            r.Season = NULL /\ r.EpisodeNumber = NULL
      [] c.kind = "since" ->
            r.Updated # NULL /\ TextGeq(Val(r.Updated), p[1])

\* The clauses are joined by AND; no clause at all is the text "1".
RECURSIVE WhereHolds(_, _, _)
WhereHolds(clauses, params, r) ==
    IF clauses = <<>> THEN TRUE
    ELSE LET c == Head(clauses) IN
         /\ ClauseHolds(c, SubSeq(params, 1, c.n), r)
         /\ WhereHolds(Tail(clauses), SubSeq(params, c.n + 1, Len(params)), r)

Selected(a, r) == LET w == build_where(a) IN WhereHolds(w.clauses, w.params, r)

-----------------------------------------------------------------------------
(* compute_insert_ranks *)

MinOf(S) == CHOOSE x \in S : \A y \in S : x <= y

MaxOf(S) == CHOOSE x \in S : \A y \in S : x >= y

LiveRanks(t) == {t[i].Rank : i \in Live(t)}

\* A variant of MinLiveRank that forgets WHERE Status IN (0,1).
MinLiveRankAll(t) == MinOf({t[i].Rank : i \in DOMAIN t})

\* A variant of MaxLiveRank that forgets WHERE Status IN (0,1).
MaxLiveRankAll(t) == MaxOf({t[i].Rank : i \in DOMAIN t})

\* SELECT COALESCE(MIN(Rank), 0) ... WHERE Status IN (0,1)
MinLiveRank(t) == IF Live(t) = {} THEN 0 ELSE MinOf(LiveRanks(t))

\* SELECT COALESCE(MAX(Rank), 0) ... WHERE Status IN (0,1)
MaxLiveRank(t) == IF Live(t) = {} THEN 0 ELSE MaxOf(LiveRanks(t))

\* A variant of AnchorRows that forgets AND Status IN (0,1).
AnchorRowsAnyStatus(t, after_title) ==
    {i \in DOMAIN t :
        /\ after_title # NULL
        /\ \/ t[i].SeriesTitle = after_title
           \/ t[i].Name = after_title}

\* The rows the anchor query matches: (SeriesTitle = ? OR Name = ?) on a
\* live row, the comparison being exact; a NULL title matches nothing.
AnchorRows(t, after_title) ==
    {i \in Live(t) :
        /\ after_title # NULL
        /\ \/ t[i].SeriesTitle = after_title
           \/ t[i].Name = after_title}

\* A variant of AnchorRank that orders by Rank ascending.
AnchorRankLowest(t, after_title) ==
    MinOf({t[i].Rank : i \in AnchorRows(t, after_title)})

\* ORDER BY Rank DESC LIMIT 1
AnchorRank(t, after_title) ==
    MaxOf({t[i].Rank : i \in AnchorRows(t, after_title)})

\* A variant of compute_insert_ranks whose offsets after an anchor start at
\* 0: the first item lands on the anchor's own rank.
compute_insert_ranks_from_zero(t, count, position, after_title) ==
    IF position = "beginning"
    THEN [ok |-> TRUE,
          ranks |-> [j \in 1..count |-> MinLiveRank(t) - (j - 1) * Unit - Unit]]
    ELSE IF position = "end"
    THEN [ok |-> TRUE,
          ranks |-> [j \in 1..count |-> MaxLiveRank(t) + (j - 1) * Unit + Unit]]
    ELSE IF AnchorRows(t, after_title) = {}
    THEN [ok |-> FALSE, ranks |-> <<>>]
    ELSE [ok |-> TRUE,
          ranks |-> [j \in 1..count |-> AnchorRank(t, after_title) + (j - 1)]]

\* A variant of compute_insert_ranks that gives every item of a batch the
\* same rank: one step below the minimum, or one step above the maximum.
compute_insert_ranks_flat(t, count, position, after_title) ==
    IF position = "beginning"
    THEN [ok |-> TRUE, ranks |-> [j \in 1..count |-> MinLiveRank(t) - Unit]]
    ELSE IF position = "end"
    THEN [ok |-> TRUE, ranks |-> [j \in 1..count |-> MaxLiveRank(t) + Unit]]
    ELSE IF AnchorRows(t, after_title) = {}
    THEN [ok |-> FALSE, ranks |-> <<>>]
    ELSE [ok |-> TRUE,
          ranks |-> [j \in 1..count |-> AnchorRank(t, after_title) + j]]

\* [ok |-> FALSE] stands for the ValueError of a missing anchor.
compute_insert_ranks(t, count, position, after_title) ==
    IF position = "beginning"
    THEN [ok |-> TRUE,
          ranks |-> [j \in 1..count |-> MinLiveRank(t) - (j - 1) * Unit - Unit]]
    ELSE IF position = "end"
    THEN [ok |-> TRUE,
          ranks |-> [j \in 1..count |-> MaxLiveRank(t) + (j - 1) * Unit + Unit]]
    ELSE IF AnchorRows(t, after_title) = {}
    THEN [ok |-> FALSE, ranks |-> <<>>]
    ELSE [ok |-> TRUE,
          ranks |-> [j \in 1..count |-> AnchorRank(t, after_title) + j]]

-----------------------------------------------------------------------------
(* The candidate query of requeue_items *)

Matching(t, a) == {i \in DOMAIN t : Selected(a, t[i])}

\* A variant of UpdatedBefore for ORDER BY Updated ASC.
UpdatedBeforeAscending(x, y) ==
    /\ y.Updated # NULL
    /\ x.Updated = NULL \/ TextLess(Val(x.Updated), Val(y.Updated))

\* x sorts before y under ORDER BY Updated DESC; NULL is the smallest value.
UpdatedBefore(x, y) ==
    /\ x.Updated # NULL
    /\ y.Updated = NULL \/ TextLess(Val(y.Updated), Val(x.Updated))

\* Every order the query may return its rows in: rows of equal Updated
\* come in an order SQLite does not promise.
QueryOrders(t, a) ==
    LET S == Matching(t, a)
        n == Cardinality(S)
    IN  {s \in [1..n -> S] :
            /\ \A i, j \in 1..n : i # j => s[i] # s[j]
            /\ \A i, j \in 1..n : i < j => ~UpdatedBefore(t[s[j]], t[s[i]])}

\* to_promote[:limit] of Python, limit an integer other than 0.
SlicePrefix(s, limit) ==
    IF limit >= 0 THEN SubSeq(s, 1, IF limit < Len(s) THEN limit ELSE Len(s))
    ELSE SubSeq(s, 1, IF Len(s) + limit > 0 THEN Len(s) + limit ELSE 0)

\* A variant of ApplyLimitTo that keeps the end of the list, not its start.
ApplyLimitSuffix(s, limit) ==
    IF limit # NULL /\ Val(limit) # 0 /\ Len(s) > Val(limit)
    THEN SubSeq(s, Len(s) - Val(limit) + 1, Len(s))
    ELSE s

\* if args.limit and len(to_promote) > args.limit: to_promote[:args.limit]
ApplyLimitTo(s, limit) ==
    IF limit # NULL /\ Val(limit) # 0 /\ Len(s) > Val(limit)
    THEN SlicePrefix(s, Val(limit))
    ELSE s

\* A variant of UpdateRow that leaves Error and Queued as they were.
UpdateRowKeepsError(t, rec_id, new_rank, stamp) ==
    [t EXCEPT ![rec_id] = [@ EXCEPT !.Status  = Queued,
                                    !.Rank    = new_rank,
                                    !.Updated = Some(stamp)]]

\* A variant of UpdateRow that writes a fresh row in place of the old one,
\* as INSERT OR REPLACE would: the columns it does not name become NULL.
UpdateRowReplace(t, rec_id, new_rank, stamp) ==
    [t EXCEPT ![rec_id] = [Name          |-> NULL,
                           SeriesTitle   |-> NULL,
                           Season        |-> NULL,
                           EpisodeNumber |-> NULL,
                           Status        |-> Queued,
                           Rank          |-> new_rank,
                           Updated       |-> Some(stamp),
                           Error         |-> NULL,
                           Queued        |-> Some(stamp)]]

\* A variant of UpdateRow without WHERE ID=?: every row is written.
UpdateRowNoWhere(t, rec_id, new_rank, stamp) ==
    [i \in DOMAIN t |-> [t[i] EXCEPT !.Status  = Queued,
                                     !.Rank    = new_rank,
                                     !.Error   = NULL,
                                     !.Queued  = Some(stamp),
                                     !.Updated = Some(stamp)]]

\* A variant of UpdateRow that does not set Status=0.
UpdateRowKeepsStatus(t, rec_id, new_rank, stamp) ==
    [t EXCEPT ![rec_id] = [@ EXCEPT !.Rank    = new_rank,
                                    !.Error   = NULL,
                                    !.Queued  = Some(stamp),
                                    !.Updated = Some(stamp)]]

\* UPDATE ... SET Status=0, Rank=?, Error=NULL, Queued=?, Updated=? WHERE ID=?
UpdateRow(t, rec_id, new_rank, stamp) ==
    [t EXCEPT ![rec_id] = [@ EXCEPT !.Status  = Queued,
                                    !.Rank    = new_rank,
                                    !.Error   = NULL,
                                    !.Queued  = Some(stamp),
                                    !.Updated = Some(stamp)]]

-----------------------------------------------------------------------------
(* The inputs of a run: a table and a command line *)

ShowTitle == <<"A", "b">>

MovieTitle == <<"B", "a">>

EpisodeName == <<"e">>

AccentTitle == <<"E'", "a">>

AbsentTitle == <<"n", "o">>

\* Rows of odd ID are episodes of one series, rows of even ID are movies;
\* the host records one item at a time, so only row 1 can be Active.
FixtureRow(i, status) ==
    [Name          |-> Some(IF i % 2 = 1 THEN EpisodeName ELSE MovieTitle),
     SeriesTitle   |-> IF i % 2 = 1 THEN Some(ShowTitle) ELSE NULL,
     Season        |-> IF i % 2 = 1 THEN Some(1) ELSE NULL,
     EpisodeNumber |-> IF i % 2 = 1 THEN Some(i) ELSE NULL,
     Status        |-> status,
     Rank          |-> IF status \in {Queued, Active} THEN i * Unit ELSE 0 - Unit,
     Updated       |-> Some(FormatDashed((i \div 2) % (MaxTime + 1))),
     Error         |-> IF status \in {Queued, Active} THEN NULL
                       ELSE Some(<<"E">>),
     Queued        |-> Some(FormatDashed(0))]

RowStatuses(i) == {IF i = 1 THEN Active ELSE Queued, Partial, Failed}

Tables == {[i \in IDs |-> FixtureRow(i, st[i])] :
              st \in {f \in [IDs -> {Queued, Active, Partial, Failed}] :
                         \A i \in IDs : f[i] \in RowStatuses(i)}}

SeqsUpTo(S, n) == UNION {[1..k -> S] : k \in 0..n}

Positions == {<<"beginning", NULL>>, <<"end", NULL>>,
              <<"after", Some(ShowTitle)>>, <<"after", Some(AbsentTitle)>>}

MakeArgs(titles, since, movies, partial, pos, dry, limit, nobackup) ==
    [title           |-> titles,
     since_dt        |-> since,
     movies_only     |-> movies,
     include_partial |-> partial,
     position        |-> pos[1],
     after_title     |-> pos[2],
     dry_run         |-> dry,
     limit           |-> limit,
     no_backup       |-> nobackup]

Limits == {NULL} \cup {Some(n) : n \in 1..MaxLimit}

ArgSets ==
    {MakeArgs(titles, since, movies, partial, pos, dry, limit, nobackup) :
        titles \in SeqsUpTo({PyLower(ShowTitle)}, MaxTitles),
        since \in {NULL},
        movies \in BOOLEAN, partial \in BOOLEAN,
        pos \in Positions, dry \in BOOLEAN,
        limit \in Limits, nobackup \in BOOLEAN}

\* The lines a user may type at the prompt.
InputLines == {<<"y", "e", "s">>, <<"Y", "e", "S">>,
               <<"y">>, <<"n", "o">>, <<>>, <<"y", "e", "s", "s">>}

Yes == <<"y", "e", "s">>

-----------------------------------------------------------------------------
(* requeue_items, one action per step *)

\* What a run starts from, whatever the table and the command line.
Start ==
    /\ before = table
    /\ work = table
    /\ in_txn = FALSE
    /\ pc = "connect"
    /\ to_promote = <<>>
    /\ ranks = <<>>
    /\ idx = 0
    /\ confirm = NULL
    /\ utc_now = NULL
    /\ events = <<>>
    /\ outcome = "running"

Init ==
    /\ table \in Tables
    /\ args \in ArgSets
    /\ Start

\* The process is over: the connection is gone and with it whatever the
\* transaction had not committed.
Finish(result) ==
    /\ pc' = "done"
    /\ outcome' = result
    /\ work' = table
    /\ in_txn' = FALSE

\* sqlite3.connect(args.db), or sys.exit(1)
Connect ==
    /\ UNCHANGED before
    /\ pc = "connect"
    /\ \/ /\ pc' = "query"
          /\ UNCHANGED <<work, in_txn, outcome>>
       \/ Finish("connect_error")
    /\ UNCHANGED <<table, args, to_promote, ranks, idx, confirm, utc_now,
                   events>>

\* SELECT ... WHERE <build_where> ORDER BY Updated DESC
Query ==
    /\ UNCHANGED before
    /\ pc = "query"
    /\ \/ /\ \E s \in QueryOrders(work, args) : to_promote' = s
          /\ pc' = "limit"
          /\ UNCHANGED <<work, in_txn, outcome>>
       \/ /\ Finish("query_error")
          /\ UNCHANGED to_promote
    /\ UNCHANGED <<table, args, ranks, idx, confirm, utc_now, events>>

ApplyLimit ==
    /\ UNCHANGED before
    /\ pc = "limit"
    /\ to_promote' = ApplyLimitTo(to_promote, args.limit)
    /\ pc' = "empty"
    /\ UNCHANGED <<table, work, in_txn, args, ranks, idx, confirm, utc_now,
                   events, outcome>>

\* A variant of CheckEmpty that goes on to the ranks whatever was found.
CheckEmptySkipped ==
    /\ UNCHANGED before
    /\ pc = "empty"
    /\ pc' = "ranks"
    /\ UNCHANGED <<table, work, in_txn, args, to_promote, ranks, idx, confirm,
                   utc_now, events, outcome>>

\* if not to_promote: "No matching failed/partial rows found."
CheckEmpty ==
    /\ UNCHANGED before
    /\ pc = "empty"
    /\ IF to_promote = <<>>
       THEN Finish("no_match")
       ELSE pc' = "ranks" /\ UNCHANGED <<work, in_txn, outcome>>
    /\ UNCHANGED <<table, args, to_promote, ranks, idx, confirm, utc_now,
                   events>>

ComputeRanks ==
    /\ UNCHANGED before
    /\ pc = "ranks"
    /\ LET r == compute_insert_ranks(work, Len(to_promote), args.position,
                                     args.after_title)
       IN  IF r.ok
           THEN /\ ranks' = r.ranks
                /\ pc' = "dry"
                /\ UNCHANGED <<work, in_txn, outcome>>
           ELSE /\ Finish("rank_error")
                /\ UNCHANGED ranks
    /\ UNCHANGED <<table, args, to_promote, idx, confirm, utc_now, events>>

\* A variant of DryRun that reports and then goes on to the prompt.
DryRunProceeds ==
    /\ UNCHANGED before
    /\ pc = "dry"
    /\ pc' = "prompt"
    /\ events' = IF args.dry_run THEN Append(events, "report") ELSE events
    /\ UNCHANGED <<table, work, in_txn, args, to_promote, ranks, idx, confirm,
                   utc_now, outcome>>

\* What the dry-run branch prints under its heading "DRY RUN - The following
\* items would be requeued:": the rows of the live queue and the (candidate,
\* new rank) pairs it lists. The branch prints the heading and closes.
DryRunReport(t, cands, rks) == [queue |-> <<>>, proposed |-> <<>>]

\* if args.dry_run: report and return
DryRun ==
    /\ UNCHANGED before
    /\ pc = "dry"
    /\ IF args.dry_run
       THEN Finish("dry_run") /\ events' = Append(events, "report")
       ELSE /\ pc' = "prompt"
            /\ UNCHANGED <<work, in_txn, outcome, events>>
    /\ UNCHANGED <<table, args, to_promote, ranks, idx, confirm, utc_now>>

\* input("Are you sure ...?"); EOFError reads as 'no'
Prompt ==
    /\ UNCHANGED before
    /\ pc = "prompt"
    /\ \/ \E line \in InputLines :
             /\ confirm' = Some(line)
             /\ events' = Append(events, "prompt")
       \/ /\ confirm' = Some(<<"n", "o">>)
          /\ events' = events \o <<"prompt", "eof">>
    /\ pc' = "decide"
    /\ UNCHANGED <<table, work, in_txn, args, to_promote, ranks, idx,
                   utc_now, outcome>>

\* A variant of Confirmed that takes any line starting with y for a yes.
ConfirmedByPrefix(line) == line # <<>> /\ PyLowerChar(line[1]) = "y"

Confirmed(line) == PyLower(line) = Yes

\* A variant of Decide that goes on whatever the answer was.
DecideProceeds ==
    /\ UNCHANGED before
    /\ pc = "decide"
    /\ pc' = "backup"
    /\ UNCHANGED <<table, work, in_txn, args, to_promote, ranks, idx, confirm,
                   utc_now, events, outcome>>

\* if confirm.lower() != 'yes': cancelled
Decide ==
    /\ UNCHANGED before
    /\ pc = "decide"
    /\ IF Confirmed(Val(confirm))
       THEN pc' = "backup" /\ UNCHANGED <<work, in_txn, outcome>>
       ELSE Finish("cancelled")
    /\ UNCHANGED <<table, args, to_promote, ranks, idx, confirm, utc_now,
                   events>>

\* A variant of BackupWanted with the flag read the wrong way round.
BackupInverted(a) == a.no_backup

BackupWanted(a) == ~a.no_backup

\* A variant of Backup that goes on after a failed copy.
BackupSwallowsFailure ==
    /\ UNCHANGED before
    /\ pc = "backup"
    /\ IF ~args.no_backup
       THEN \E e \in {"backup", "backup_failed"} : events' = Append(events, e)
       ELSE UNCHANGED events
    /\ pc' = "stamp"
    /\ UNCHANGED <<table, work, in_txn, args, to_promote, ranks, idx, confirm,
                   utc_now, outcome>>

\* if not args.no_backup: backup_database(args.db); a failing copy raises
\* out of requeue_items.
Backup ==
    /\ UNCHANGED before
    /\ pc = "backup"
    /\ IF BackupWanted(args)
       THEN \/ /\ events' = Append(events, "backup")
               /\ pc' = "stamp"
               /\ UNCHANGED <<work, in_txn, outcome>>
            \/ /\ events' = Append(events, "backup_failed")
               /\ Finish("backup_error")
       ELSE /\ pc' = "stamp"
            /\ UNCHANGED <<work, in_txn, outcome, events>>
    /\ UNCHANGED <<table, args, to_promote, ranks, idx, confirm, utc_now>>

\* The clock does not run backwards: the current instant is not before an
\* instant the table already holds.
NowTimes(t) ==
    {now \in Time :
        \A i \in DOMAIN t, u \in Time :
            t[i].Updated = Some(FormatDashed(u)) => u <= now}

\* utc_now = datetime.now(timezone.utc).strftime("%Y%m%d-%H%M%S")
Stamp ==
    /\ UNCHANGED before
    /\ pc = "stamp"
    /\ \E now \in NowTimes(work) : utc_now' = Some(FormatCompact(now))
    /\ pc' = "begin"
    /\ UNCHANGED <<table, work, in_txn, args, to_promote, ranks, idx,
                   confirm, events, outcome>>

\* cur.execute("BEGIN TRANSACTION;")
Begin ==
    /\ UNCHANGED before
    /\ pc = "begin"
    /\ \/ /\ in_txn' = TRUE
          /\ events' = Append(events, "begin")
          /\ pc' = "update"
       \/ /\ pc' = "rollback"
          /\ UNCHANGED <<in_txn, events>>
    /\ UNCHANGED <<table, work, args, to_promote, ranks, idx, confirm,
                   utc_now, outcome>>

\* one pass of the loop over zip(to_promote, ranks)
Update ==
    /\ UNCHANGED before
    /\ pc = "update"
    /\ idx < Len(to_promote)
    /\ idx < Len(ranks)
    /\ \/ /\ work' = UpdateRow(work, to_promote[idx + 1], ranks[idx + 1],
                               Val(utc_now))
          /\ idx' = idx + 1
          /\ events' = Append(events, "update")
          /\ pc' = "update"
       \/ /\ pc' = "rollback"
          /\ UNCHANGED <<work, idx, events>>
    /\ UNCHANGED <<table, in_txn, args, to_promote, ranks, confirm, utc_now,
                   outcome>>

\* con.commit()
Commit ==
    /\ UNCHANGED before
    /\ pc = "update"
    /\ idx >= Len(to_promote) \/ idx >= Len(ranks)
    /\ \/ /\ table' = work
          /\ in_txn' = FALSE
          /\ events' = Append(events, "commit")
          /\ outcome' = "committed"
          /\ pc' = "close"
       \/ /\ pc' = "rollback"
          /\ UNCHANGED <<table, in_txn, events, outcome>>
    /\ UNCHANGED <<work, args, to_promote, ranks, idx, confirm, utc_now>>

\* A variant of Rollback that keeps what the transaction had written.
RollbackKeepsWrites ==
    /\ UNCHANGED before
    /\ pc = "rollback"
    /\ table' = work
    /\ in_txn' = FALSE
    /\ events' = Append(events, "rollback")
    /\ outcome' = "rolled_back"
    /\ pc' = "close"
    /\ UNCHANGED <<work, args, to_promote, ranks, idx, confirm, utc_now>>

\* except sqlite3.Error: con.rollback()
Rollback ==
    /\ UNCHANGED before
    /\ pc = "rollback"
    /\ work' = table
    /\ in_txn' = FALSE
    /\ events' = Append(events, "rollback")
    /\ outcome' = "rolled_back"
    /\ pc' = "close"
    /\ UNCHANGED <<table, args, to_promote, ranks, idx, confirm, utc_now>>

\* finally: con.close()
Close ==
    /\ UNCHANGED before
    /\ pc = "close"
    /\ pc' = "done"
    /\ work' = table
    /\ in_txn' = FALSE
    /\ UNCHANGED <<table, args, to_promote, ranks, idx, confirm, utc_now,
                   events, outcome>>

Next ==
    \/ Connect
    \/ Query
    \/ ApplyLimit
    \/ CheckEmpty
    \/ ComputeRanks
    \/ DryRun
    \/ Prompt
    \/ Decide
    \/ Backup
    \/ Stamp
    \/ Begin
    \/ Update
    \/ Commit
    \/ Rollback
    \/ Close

Spec == Init /\ [][Next]_vars

-----------------------------------------------------------------------------
(* The filter alone: one row and one filter configuration, widely drawn *)

\* The title clause of build_where on its own.
TitleSelected(a, r) ==
    ClauseHolds([kind |-> "title_any", n |-> 2 * Len(a.title)],
                TitleParams(a.title), r)

WideRows ==
    {[Name          |-> Some(name),
      SeriesTitle   |-> series,
      Season        |-> se,
      EpisodeNumber |-> se,
      Status        |-> status,
      Rank          |-> IF status \in {Queued, Active} THEN Unit ELSE 0 - Unit,
      Updated       |-> updated,
      Error         |-> NULL,
      Queued        |-> NULL] :
        name \in {ShowTitle, AccentTitle, EpisodeName},
        series \in {NULL, Some(ShowTitle), Some(PyLower(AccentTitle))},
        se \in {NULL, Some(1)},
        status \in {Queued, Active, Partial, Failed},
        updated \in {NULL} \cup {Some(FormatDashed(t)) : t \in Time}}

UserTitles == {<<"A", "B">>, AccentTitle, MovieTitle}

WideFilters ==
    {MakeArgs(titles, since, movies, partial, <<"end", NULL>>, TRUE, NULL,
              FALSE) :
        titles \in SeqsUpTo(UserTitles, MaxTitles),
        since \in {NULL} \cup {Some(t) : t \in Time},
        movies \in BOOLEAN, partial \in BOOLEAN}

InitWhere ==
    /\ table \in {[i \in IDs |-> IF i = 1 THEN r
                                    ELSE FixtureRow(i, IF i = 2 THEN Failed
                                                       ELSE Queued)] :
                     r \in WideRows}
    /\ args \in WideFilters
    /\ Start

NextWhere ==
    \/ Connect
    \/ Query

SpecWhere == InitWhere /\ [][NextWhere]_vars

-----------------------------------------------------------------------------
(* Rank allocation alone: tables of freely drawn ranks, every position *)

\* Ranks a row may hold: below zero, a whole number, and one 0.001 step
\* above it, as an earlier insertion after an anchor leaves behind.
RankChoices == {0 - Unit, Unit, Unit + 1}

\* The fixture's rows, each with any of the ranks, live or not.
RankTables ==
    {[i \in IDs |-> [FixtureRow(i, st[i]) EXCEPT !.Rank = rk[i]]] :
        st \in {f \in [IDs -> {Queued, Active, Partial, Failed}] :
                   \A i \in IDs : f[i] \in RowStatuses(i)},
        rk \in [IDs -> RankChoices]}

\* Anchor titles: a series title, a movie's name, an episode's name, the
\* series title in another casing, and a title no row holds.
AfterTitles == {ShowTitle, MovieTitle, EpisodeName, PyLower(ShowTitle),
                AbsentTitle}

RankPositions == {<<"beginning", NULL>>, <<"end", NULL>>}
                 \cup {<<"after", Some(t)>> : t \in AfterTitles}

RankArgs ==
    {MakeArgs(<<>>, NULL, FALSE, TRUE, pos, TRUE, limit, FALSE) :
        pos \in RankPositions, limit \in Limits}

InitRanks ==
    /\ table \in RankTables
    /\ args \in RankArgs
    /\ Start

NextRanks ==
    \/ Connect
    \/ Query
    \/ ApplyLimit
    \/ CheckEmpty
    \/ ComputeRanks

SpecRanks == InitRanks /\ [][NextRanks]_vars

-----------------------------------------------------------------------------
(* parse_since: the --since token resolved against the clock *)

\* An instant is a day, counted from Monday 2001-01-01; the times of day
\* that parse_since sets to 00:00:00 are not kept.
Today == <<"t", "o", "d", "a", "y">>

Yesterday == <<"y", "e", "s", "t", "e", "r", "d", "a", "y">>

ThisWeek == <<"t", "h", "i", "s", "-", "w", "e", "e", "k">>

ThisMonth == <<"t", "h", "i", "s", "-", "m", "o", "n", "t", "h">>

WeekAliases == {<<"w", "e", "e", "k">>, <<"w">>}

MonthAliases == {<<"m", "o", "n", "t", "h">>, <<"m">>}

IsDigits(f) == \A i \in 1..Len(f) : IndexOf(f[i], Digits) > 0

\* The number a field of one or two digits spells.
NumVal(f) ==
    IF Len(f) = 1 THEN IndexOf(f[1], Digits) - 1
    ELSE 10 * (IndexOf(f[1], Digits) - 1) + IndexOf(f[2], Digits) - 1

\* %y of strptime: 00..68 are 2000..2068, 69..99 are 1969..1999; the year
\* is held relative to 2000.
YearOf(yy) == IF yy <= 68 THEN yy ELSE yy - 100

DaysIn(m, y) ==
    IF m = 2 THEN (IF y % 4 = 0 THEN 29 ELSE 28)
    ELSE IF m \in {4, 6, 9, 11} THEN 30 ELSE 31

RECURSIVE DaysBeforeMonth(_, _)
DaysBeforeMonth(m, y) ==
    IF m = 1 THEN 0 ELSE DaysBeforeMonth(m - 1, y) + DaysIn(m - 1, y)

\* The day number of a calendar date.
DayNumber(m, d, y) ==
    365 * (y - 1) + ((y - 1) \div 4) + DaysBeforeMonth(m, y) + d - 1

\* now.weekday(): Monday is 0.
Weekday(now) == now % 7

\* now.replace(day=1), for a day of 2001.
MonthStart(now) ==
    MaxOf({DaysBeforeMonth(m, 1) : m \in {k \in 1..12 :
                                             DaysBeforeMonth(k, 1) <= now}})

\* datetime.strptime(token, "%m-%d-%y"): a month and a day of one or two
\* digits, a year of two, and the three naming a date of the calendar.
strptime(token) ==
    LET dashes == {i \in 1..Len(token) : token[i] = "-"}
    IN  IF Cardinality(dashes) # 2 THEN [ok |-> FALSE, value |-> NULL]
        ELSE LET i1 == MinOf(dashes)
                 i2 == MaxOf(dashes)
                 fm == SubSeq(token, 1, i1 - 1)
                 fd == SubSeq(token, i1 + 1, i2 - 1)
                 fy == SubSeq(token, i2 + 1, Len(token))
             IN  IF /\ Len(fm) \in {1, 2} /\ IsDigits(fm)
                    /\ Len(fd) \in {1, 2} /\ IsDigits(fd)
                    /\ Len(fy) = 2 /\ IsDigits(fy)
                    /\ NumVal(fm) \in 1..12
                    /\ NumVal(fd) \in 1..DaysIn(NumVal(fm), YearOf(NumVal(fy)))
                 THEN [ok |-> TRUE,
                       value |-> Some(DayNumber(NumVal(fm), NumVal(fd),
                                                YearOf(NumVal(fy))))]
                 ELSE [ok |-> FALSE, value |-> NULL]

\* A variant of parse_since that takes any unknown token for today.
parse_since_lenient(token, now) ==
    IF token = NULL THEN [ok |-> TRUE, value |-> NULL]
    ELSE IF strptime(PyLower(Val(token))).ok
    THEN strptime(PyLower(Val(token)))
    ELSE [ok |-> TRUE, value |-> Some(now)]

\* [ok |-> FALSE] stands for argparse.ArgumentTypeError.
parse_since(token, now) ==
    IF token = NULL THEN [ok |-> TRUE, value |-> NULL]
    ELSE LET t == PyLower(Val(token))
         IN  IF t = Today THEN [ok |-> TRUE, value |-> Some(now)]
             ELSE IF t = Yesterday THEN [ok |-> TRUE, value |-> Some(now - 1)]
             ELSE IF t \in {ThisWeek} \cup WeekAliases
             THEN [ok |-> TRUE, value |-> Some(now - Weekday(now))]
             ELSE IF t \in {ThisMonth} \cup MonthAliases
             THEN [ok |-> TRUE, value |-> Some(MonthStart(now))]
             ELSE strptime(t)

-----------------------------------------------------------------------------
(* main: the steps before requeue_items *)

\* The tokens given to --since: the keywords and their aliases, two in
\* other casings, dates of the calendar and texts that are neither.
SinceTokens ==
    {Today, Yesterday, ThisWeek, ThisMonth} \cup WeekAliases \cup MonthAliases
    \cup {<<"T", "o", "d", "a", "y">>, <<"W">>,
          <<"0", "1", "-", "0", "1", "-", "0", "1">>,
          <<"1", "-", "2", "-", "0", "1">>,
          <<"0", "2", "-", "3", "0", "-", "0", "1">>,
          <<"1", "3", "-", "0", "1", "-", "0", "1">>,
          <<"0", "1", "-", "0", "2", "-", "1">>,
          <<"s", "o", "o", "n">>}

\* bool(x) of Python for an option that is None or a text.
Truthy(o) == o # NULL /\ Val(o) # <<>>

MainPositions == {<<"end", NULL>>, <<"after", NULL>>, <<"after", Some(<<>>)>>,
                  <<"after", Some(ShowTitle)>>}

\* The namespace parse_args returns; since_dt is set later, by main.
MainArgs ==
    {MakeArgs(titles, NULL, FALSE, partial, pos, dry, NULL, FALSE)
       @@ [all |-> all, since |-> since, kill |-> kill, restart |-> restart,
           analyze |-> analyze] :
        titles \in SeqsUpTo({PyLower(ShowTitle)}, MaxTitles),
        partial \in BOOLEAN, pos \in MainPositions, dry \in BOOLEAN,
        all \in BOOLEAN,
        since \in {NULL} \cup {Some(s) : s \in SinceTokens},
        kill \in BOOLEAN, restart \in BOOLEAN, analyze \in BOOLEAN}

\* Today's date, late enough for yesterday to be a day of the model.
Clock == 1..MaxTime

InitMain ==
    /\ table = [i \in IDs |-> FixtureRow(i, Failed)]
    /\ args \in MainArgs
    /\ before = table
    /\ work = table
    /\ in_txn = FALSE
    /\ pc = "analyze"
    /\ to_promote = <<>>
    /\ ranks = <<>>
    /\ idx = 0
    /\ confirm = NULL
    /\ utc_now = NULL
    /\ events = <<>>
    /\ outcome = "running"

\* if args.analyze: analyze_queue(args); sys.exit(0). analyze_queue opens
\* the database read-only and reads the queue.
CheckAnalyze ==
    /\ UNCHANGED before
    /\ pc = "analyze"
    /\ IF args.analyze
       THEN /\ events' = Append(events, "analyze")
            /\ Finish("analyzed") \/ Finish("connect_error")
       ELSE /\ pc' = "elevate"
            /\ UNCHANGED <<work, in_txn, outcome, events>>
    /\ UNCHANGED <<table, args, to_promote, ranks, idx, confirm, utc_now>>

\* if args.restart and not is_admin(): relaunch elevated and exit.
CheckElevation ==
    /\ UNCHANGED before
    /\ pc = "elevate"
    /\ \/ /\ pc' = "validate"
          /\ UNCHANGED <<work, in_txn, outcome, events>>
       \/ /\ args.restart
          /\ events' = Append(events, "elevate")
          /\ Finish("relaunched") \/ Finish("elevation_error")
    /\ UNCHANGED <<table, args, to_promote, ranks, idx, confirm, utc_now>>

\* A variant of ValidOptions that does not ask for a filter.
ValidOptionsNoFilter(a) ==
    ~(a.position = "after" /\ ~Truthy(a.after_title))

\* The two checks of main on the parsed options.
ValidOptions(a) ==
    /\ ~(a.position = "after" /\ ~Truthy(a.after_title))
    /\ \/ a.title # <<>>
       \/ Truthy(a.since)
       \/ a.movies_only
       \/ a.include_partial
       \/ a.all

Validate ==
    /\ UNCHANGED before
    /\ pc = "validate"
    /\ IF ValidOptions(args)
       THEN pc' = "since" /\ UNCHANGED <<work, in_txn, outcome>>
       ELSE Finish("usage_error")
    /\ UNCHANGED <<table, args, to_promote, ranks, idx, confirm, utc_now,
                   events>>

\* args.since_dt = parse_since(args.since), or sys.exit(1)
ParseSince ==
    /\ UNCHANGED before
    /\ pc = "since"
    /\ \E now \in Clock :
          LET r == parse_since(args.since, now)
          IN  IF r.ok
              THEN /\ args' = [args EXCEPT !.since_dt = r.value]
                   /\ pc' = "dbfile"
                   /\ UNCHANGED <<work, in_txn, outcome>>
              ELSE /\ Finish("since_error")
                   /\ UNCHANGED args
    /\ UNCHANGED <<table, to_promote, ranks, idx, confirm, utc_now, events>>

\* if not os.path.exists(args.db): sys.exit(1)
CheckDbExists ==
    /\ UNCHANGED before
    /\ pc = "dbfile"
    /\ \/ pc' = "kill" /\ UNCHANGED <<work, in_txn, outcome>>
       \/ Finish("db_missing")
    /\ UNCHANGED <<table, args, to_promote, ranks, idx, confirm, utc_now,
                   events>>

\* if args.kill or args.restart: taskkill every PlayOn process found
KillProcesses ==
    /\ UNCHANGED before
    /\ pc = "kill"
    /\ \/ /\ args.kill \/ args.restart
          /\ events' = Append(events, "kill")
       \/ UNCHANGED events
    /\ pc' = "connect"
    /\ UNCHANGED <<table, work, in_txn, args, to_promote, ranks, idx, confirm,
                   utc_now, outcome>>

NextMain ==
    \/ CheckAnalyze
    \/ CheckElevation
    \/ Validate
    \/ ParseSince
    \/ CheckDbExists
    \/ KillProcesses
    \/ Next

SpecMain == InitMain /\ [][NextMain]_vars

-----------------------------------------------------------------------------
(* Runs one after the other on the same database *)

\* The command lines of the runs: every position, with and without
\* --dry-run, one row at a time or all of them, every failed or partial
\* row a candidate.
RunArgs ==
    {MakeArgs(<<>>, NULL, FALSE, TRUE, pos, dry, limit, TRUE) :
        pos \in {<<"beginning", NULL>>, <<"end", NULL>>,
                 <<"after", Some(ShowTitle)>>},
        dry \in BOOLEAN, limit \in {NULL, Some(1)}}

InitRuns ==
    /\ table \in Tables
    /\ args \in RunArgs
    /\ Start

\* The program is started again, on the table the last run left.
NewRun ==
    /\ pc = "done"
    /\ args' \in RunArgs
    /\ before' = table
    /\ work' = table
    /\ in_txn' = FALSE
    /\ pc' = "connect"
    /\ to_promote' = <<>>
    /\ ranks' = <<>>
    /\ idx' = 0
    /\ confirm' = NULL
    /\ utc_now' = NULL
    /\ events' = <<>>
    /\ outcome' = "running"
    /\ UNCHANGED table

NextRuns ==
    \/ Next
    \/ NewRun

SpecRuns == InitRuns /\ [][NextRuns]_vars

-----------------------------------------------------------------------------
(* The same command given again *)

\* Command lines that differ in their filter: with or without a title,
\* with or without --include-partial, with or without a limit.
RerunArgs ==
    {MakeArgs(titles, NULL, FALSE, partial, <<"end", NULL>>, FALSE, limit,
              TRUE) :
        titles \in SeqsUpTo({PyLower(ShowTitle)}, MaxTitles),
        partial \in BOOLEAN, limit \in {NULL, Some(1)}}

InitRerun ==
    /\ table \in Tables
    /\ args \in RerunArgs
    /\ Start

\* The program is started again with one of these command lines.
Rerun ==
    /\ pc = "done"
    /\ args' \in RerunArgs
    /\ before' = table
    /\ work' = table
    /\ in_txn' = FALSE
    /\ pc' = "connect"
    /\ to_promote' = <<>>
    /\ ranks' = <<>>
    /\ idx' = 0
    /\ confirm' = NULL
    /\ utc_now' = NULL
    /\ events' = <<>>
    /\ outcome' = "running"
    /\ UNCHANGED table

NextRerun ==
    \/ Next
    \/ Rerun

SpecRerun == InitRerun /\ [][NextRerun]_vars

-----------------------------------------------------------------------------
(* The database shared with other connections *)

\* sqlite3.connect opens an ordinary connection and BEGIN TRANSACTION is
\* deferred: the file is locked against other writers from the first
\* UPDATE until the commit or rollback, and at no other time.
HoldsWriteLock == in_txn /\ idx > 0

\* What another connection commits to one row: the recorder fails a live
\* item, or a second instance of the program promotes a failed one.
OtherRow(t, i) ==
    IF t[i].Status \in {Queued, Active}
    THEN [t[i] EXCEPT !.Status = Failed, !.Error = Some(<<"E">>)]
    ELSE [t[i] EXCEPT !.Status = Queued, !.Rank = MaxLiveRank(t) + Unit,
                      !.Error = NULL]

\* Another connection commits a write, once, between the candidate query
\* of this run and the end of its transaction.
OtherWrite ==
    /\ UNCHANGED before
    /\ pc \in {"limit", "empty", "ranks", "dry", "prompt", "decide", "backup",
               "stamp", "begin", "update"}
    /\ ~HoldsWriteLock
    /\ \A k \in 1..Len(events) : events[k] # "other_write"
    /\ \E i \in IDs :
          /\ table' = [table EXCEPT ![i] = OtherRow(table, i)]
          /\ work' = [work EXCEPT ![i] = OtherRow(table, i)]
    /\ events' = Append(events, "other_write")
    /\ UNCHANGED <<in_txn, args, pc, to_promote, ranks, idx, confirm, utc_now,
                   outcome>>

NextShared ==
    \/ Next
    \/ OtherWrite

SpecShared == InitRuns /\ [][NextShared]_vars

-----------------------------------------------------------------------------
(* Vocabulary of the properties *)

HasEvent(e) == \E i \in 1..Len(events) : events[i] = e

CountEvents(S) == Cardinality({i \in 1..Len(events) : events[i] \in S})

\* Every occurrence of an event of S comes after an occurrence of e.
Precedes(e, S) ==
    \A i \in 1..Len(events) :
        events[i] \in S => \E j \in 1..(i - 1) : events[j] = e

Candidates == {to_promote[k] : k \in 1..Len(to_promote)}

\* Two characters that are the same letter, whatever their case.
SameLetter(c, d) ==
    \/ c = d
    \/ \E i \in 1..Len(UnicodeUpper) :
          {c, d} = {UnicodeUpper[i], UnicodeLower[i]}

EqualIgnoringCase(s, t) ==
    /\ Len(s) = Len(t)
    /\ \A i \in 1..Len(s) : SameLetter(s[i], t[i])

\* The line read at the prompt was "yes" in some casing, and it was a line.
Affirmative ==
    /\ confirm # NULL
    /\ EqualIgnoringCase(Val(confirm), Yes)
    /\ ~HasEvent("eof")

NothingWritten == table = before /\ work = before /\ ~in_txn

NoBackupMade == ~HasEvent("backup") /\ ~HasEvent("backup_failed")

-----------------------------------------------------------------------------
(* The write phase *)

\* C1: the write phase is atomic.  Whatever fails after BEGIN, the
\* committed table never holds only some of the candidates promoted: either
\* every candidate still has the columns it had before the run or every
\* candidate is Queued; a run that rolled back left the table as it was, a
\* run that committed promoted every candidate.
C1_Atomicity ==
    /\ \/ \A c \in Candidates : Written(table[c]) = Written(before[c])
       \/ \A c \in Candidates : table[c].Status = Queued
    /\ outcome = "rolled_back" => table = before
    /\ pc = "done" /\ outcome = "rolled_back" => work = before
    /\ outcome = "committed" =>
          \A c \in Candidates :
              table[c].Status = Queued /\ before[c].Status # Queued

\* A run that failed after the first of two or more updates and is over.
C1_Witness ==
    /\ pc = "done"
    /\ outcome = "rolled_back"
    /\ idx >= 1
    /\ idx < Len(to_promote)

\* C2: a dry run changes no row, makes no backup and never prompts,
\* whatever the filter, the position and the number of matches.
C2_DryRunNoOp ==
    args.dry_run =>
        /\ NothingWritten
        /\ NoBackupMade
        /\ ~HasEvent("prompt")
        /\ ~HasEvent("begin")

\* A dry run that found two or more candidates and reported them.
C2_Witness ==
    /\ args.dry_run
    /\ outcome = "dry_run"
    /\ Len(to_promote) >= 2

\* C3: unless the line read at the prompt is "yes" in some casing, no row
\* is changed and no backup is made, and the run ends cancelled; the end of
\* input is such a decline.
C3_ConfirmationGating ==
    /\ ~Affirmative => NothingWritten /\ NoBackupMade /\ ~HasEvent("begin")
    /\ pc = "done" /\ HasEvent("prompt") /\ ~Affirmative =>
          outcome = "cancelled"
    /\ HasEvent("eof") => ~Affirmative

\* The run was cancelled by the end of input, or by a line that is not
\* "yes" but starts like it.
C3_Witness ==
    /\ pc = "done"
    /\ outcome = "cancelled"
    /\ HasEvent("eof") \/ confirm = Some(<<"y">>)
    /\ Len(to_promote) >= 1

\* C4: the order of the safety envelope is fixed.  The backup comes after
\* the prompt was answered, the transaction and every update come after the
\* backup when the backup is enabled, never after a failed backup, and only
\* after an affirmative answer; no backup is made once writing has begun.
C4_EnvelopeOrder ==
    /\ Precedes("prompt", {"backup", "backup_failed", "begin", "update"})
    /\ HasEvent("backup") \/ HasEvent("backup_failed") => Affirmative
    /\ HasEvent("begin") \/ HasEvent("update") \/ table # before =>
          /\ Affirmative
          /\ ~HasEvent("backup_failed")
    /\ ~args.no_backup => Precedes("backup", {"begin", "update", "commit"})
    /\ \A i, j \in 1..Len(events) :
          events[i] \in {"begin", "update"} /\ i < j =>
              events[j] \notin {"backup", "backup_failed", "prompt"}

\* A run that prompted, backed up and then updated a row.
C4_Witness ==
    /\ HasEvent("backup")
    /\ HasEvent("update")
    /\ outcome = "committed"

\* C5: in a confirmed run that is no dry run and has a candidate,
\* backup_database is called exactly once, before the first update, when
\* no_backup is not set, and never when no_backup is set.
C5_BackupGating ==
    LET calls == CountEvents({"backup", "backup_failed"})
        confirmed == /\ ~args.dry_run
                     /\ Len(to_promote) >= 1
                     /\ HasEvent("prompt")
                     /\ Affirmative
                     /\ pc \notin {"decide", "backup"}
    IN  /\ args.no_backup => calls = 0
        /\ confirmed /\ ~args.no_backup => calls = 1
        /\ calls = 1 =>
              \A i, j \in 1..Len(events) :
                  events[i] \in {"backup", "backup_failed"}
                  /\ events[j] = "update" => i < j

\* A confirmed run with the backup enabled that committed its updates.
C5_Witness ==
    /\ ~args.no_backup
    /\ outcome = "committed"
    /\ CountEvents({"backup", "backup_failed"}) = 1
    /\ CountEvents({"update"}) >= 1

\* C6: when the backup is enabled and the copy fails, the run fails there:
\* no transaction is opened and no row is changed.
C6_BackupFailureAborts ==
    HasEvent("backup_failed") =>
        /\ ~args.no_backup
        /\ pc = "done"
        /\ outcome = "backup_error"
        /\ ~HasEvent("begin")
        /\ ~HasEvent("update")
        /\ NothingWritten

\* The copy failed in a confirmed run.
C6_Witness ==
    /\ HasEvent("backup_failed")
    /\ Affirmative
    /\ Len(to_promote) >= 1

\* C7: after a run that committed, every candidate left by the limit is
\* Queued with the rank compute_insert_ranks gives its place in the
\* candidate list, has no error, and has Updated and Queued set to one and
\* the same stamp taken in this run.
C7_PromotionEffect ==
    outcome = "committed" =>
        LET r == compute_insert_ranks(before, Len(to_promote), args.position,
                                      args.after_title)
        IN  /\ r.ok
            /\ utc_now # NULL
            /\ \A k \in 1..Len(to_promote) :
                  LET row == table[to_promote[k]]
                  IN  /\ row.Status = Queued
                      /\ row.Rank = r.ranks[k]
                      /\ row.Error = NULL
                      /\ row.Updated = utc_now
                      /\ row.Queued = utc_now

\* A committed run of two or more candidates that had an error text.
C7_Witness ==
    /\ outcome = "committed"
    /\ Len(to_promote) >= 2
    /\ \A c \in Candidates : before[c].Error # NULL

-----------------------------------------------------------------------------
(* The filter *)

\* C8: every row the query returns is Failed, or Partial with
\* include_partial set; a Queued or Active row is never returned, and
\* neither is a Partial row when include_partial is unset.
C8_StatusSelection ==
    /\ \A i \in IDs :
          Selected(args, table[i]) =>
              \/ table[i].Status = Failed
              \/ table[i].Status = Partial /\ args.include_partial
    /\ \A c \in Candidates :
          /\ before[c].Status \notin {Queued, Active}
          /\ before[c].Status = Partial => args.include_partial

\* The query returned a Partial row, include_partial being set.
C8_Witness ==
    /\ pc = "limit"
    /\ args.include_partial
    /\ \E c \in Candidates : table[c].Status = Partial

\* The title condition as the specification words it.
TitleMatches(titles, r) ==
    \E k \in 1..Len(titles) :
        \/ r.SeriesTitle # NULL /\ EqualIgnoringCase(Val(r.SeriesTitle), titles[k])
        \/ r.Name # NULL /\ EqualIgnoringCase(Val(r.Name), titles[k])

\* C9: when titles are given, a row satisfies the title condition of
\* build_where if and only if its series title or its name equals one of
\* the titles ignoring case.
C9_TitleSelection ==
    pc = "limit" /\ args.title # <<>> =>
        \A i \in IDs :
            TitleSelected(args, table[i]) <=> TitleMatches(args.title, table[i])

\* The filter as the specification words it, updated_at compared as an instant.
FilterHolds(a, r) ==
    /\ r.Status = Failed \/ (r.Status = Partial /\ a.include_partial)
    /\ a.title # <<>> => TitleMatches(a.title, r)
    /\ a.movies_only => r.Season = NULL /\ r.EpisodeNumber = NULL
    /\ a.since_dt # NULL =>
          \E t \in Time : r.Updated = Some(FormatDashed(t)) /\ t >= Val(a.since_dt)

\* C10: the rows the query returns are exactly the rows that satisfy the
\* status condition, the title condition if titles are given, the movie
\* condition if movies_only, and updated_at >= since if since is given.
C10_PredicateCorrectness ==
    pc = "limit" =>
        Candidates = {i \in IDs : FilterHolds(args, table[i])}

-----------------------------------------------------------------------------
(* The limit *)

\* The instant a text of the table's format stands for.
InstantOf(text) == CHOOSE t \in Time : text = Some(FormatDashed(t))

MinNat(a, b) == IF a <= b THEN a ELSE b

\* The rows a run promoted: terminal before it, Queued after it.
PromotedRows == {i \in IDs : before[i].Status \notin {Queued, Active}
                             /\ table[i].Status = Queued}

\* C11: with a limit L and C matching rows, a confirmed run that commits
\* promotes exactly min(L, C) rows; no matching row left out was updated
\* more recently than a promoted one, and every matching row left out keeps
\* the columns it had.
C11_LimitTruncation ==
    outcome = "committed" /\ args.limit # NULL =>
        LET matching == {i \in IDs : FilterHolds(args, before[i])}
            rest == matching \ PromotedRows
        IN  /\ PromotedRows \subseteq matching
            /\ Cardinality(PromotedRows)
                  = MinNat(Val(args.limit), Cardinality(matching))
            /\ \A p \in PromotedRows, q \in rest :
                  InstantOf(before[p].Updated) >= InstantOf(before[q].Updated)
            /\ \A q \in rest : table[q] = before[q]

\* A committed run whose limit cut off a matching row that was updated
\* earlier than the promoted ones.
C11_Witness ==
    /\ outcome = "committed"
    /\ args.limit # NULL
    /\ PromotedRows # {}
    /\ \E q \in IDs \ PromotedRows :
          /\ FilterHolds(args, before[q])
          /\ \A p \in PromotedRows :
                InstantOf(before[p].Updated) > InstantOf(before[q].Updated)

-----------------------------------------------------------------------------
(* Rank allocation *)

\* The rows that were in the queue before the run: Queued or Active.
LiveBefore == {i \in IDs : before[i].Status \in {Queued, Active}}

\* The live rows whose series title or name is exactly the anchor title.
NamedBefore ==
    {i \in LiveBefore : \/ before[i].SeriesTitle = args.after_title
                        \/ before[i].Name = args.after_title}

\* compute_insert_ranks has returned a list of ranks.
RanksComputed == pc = "dry"

\* C12: at position end, with k candidates and live maximum rank M (0 when
\* no row is live), the ranks are M+1, ..., M+k in that order, each
\* strictly greater than the rank of every row live before the run.
C12_RankAtEnd ==
    RanksComputed /\ args.position = "end" =>
        LET k == Len(to_promote)
            M == IF LiveBefore = {} THEN 0
                 ELSE CHOOSE m \in {before[i].Rank : i \in LiveBefore} :
                          \A i \in LiveBefore : before[i].Rank <= m
        IN  /\ Len(ranks) = k
            /\ \A j \in 1..k :
                  /\ ranks[j] = M + j * Unit
                  /\ \A i \in LiveBefore : ranks[j] > before[i].Rank

\* Two items appended behind a live row while a failed row holds a rank
\* above every live one.
C12_Witness ==
    /\ RanksComputed
    /\ args.position = "end"
    /\ Len(ranks) >= 2
    /\ LiveBefore # {}
    /\ \E f \in IDs \ LiveBefore :
          \A i \in LiveBefore : before[f].Rank > before[i].Rank

\* C13: at position beginning, with k candidates and live minimum rank m
\* (0 when no row is live), the j-th candidate gets m-j; every rank is
\* strictly less than m and the last candidate's rank is the lowest.
C13_RankAtBeginning ==
    RanksComputed /\ args.position = "beginning" =>
        LET k == Len(to_promote)
            m == IF LiveBefore = {} THEN 0
                 ELSE CHOOSE x \in {before[i].Rank : i \in LiveBefore} :
                          \A i \in LiveBefore : before[i].Rank >= x
        IN  /\ Len(ranks) = k
            /\ \A j \in 1..k :
                  /\ ranks[j] = m - j * Unit
                  /\ ranks[j] < m
                  /\ ranks[k] <= ranks[j]

\* Two items put in front of a live row while a failed row holds a rank
\* below every live one.
C13_Witness ==
    /\ RanksComputed
    /\ args.position = "beginning"
    /\ Len(ranks) >= 2
    /\ LiveBefore # {}
    /\ \E f \in IDs \ LiveBefore :
          \A i \in LiveBefore : before[f].Rank < before[i].Rank

\* C14: at position after, the j-th candidate gets the anchor's rank plus
\* j steps of 0.001: after an anchor of rank 1.0 one item gets 1.001, two
\* items get 1.001 and 1.002.
C14_RankAfterAnchor ==
    RanksComputed /\ args.position = "after" =>
        /\ Len(ranks) = Len(to_promote)
        /\ \E a \in NamedBefore :
              \A j \in 1..Len(ranks) : ranks[j] = before[a].Rank + j
        /\ (\A a \in NamedBefore : before[a].Rank = Unit) =>
              /\ ranks[1] = Unit + 1
              /\ Len(ranks) >= 2 => ranks[2] = Unit + 2

\* Two items inserted after an anchor of rank 1.0.
C14_Witness ==
    /\ RanksComputed
    /\ args.position = "after"
    /\ NamedBefore # {}
    /\ \A a \in NamedBefore : before[a].Rank = Unit
    /\ ranks = <<Unit + 1, Unit + 2>>

\* C15: at position after, the anchor is a live row whose series title or
\* name is exactly the anchor title, one of highest rank among such rows;
\* when only Partial or Failed rows carry the title there is no anchor.
C15_AnchorSelection ==
    /\ RanksComputed /\ args.position = "after" =>
          \E a \in NamedBefore :
              /\ ranks[1] = before[a].Rank + 1
              /\ \A b \in NamedBefore : before[b].Rank <= before[a].Rank
    /\ outcome = "rank_error" => NamedBefore = {}

\* Two live rows of different ranks carry the anchor title, and a third
\* row is promoted after them.
C15_Witness ==
    /\ RanksComputed
    /\ args.position = "after"
    /\ \E a, b \in NamedBefore : before[a].Rank < before[b].Rank
    /\ Len(ranks) >= 1

-----------------------------------------------------------------------------
(* Runs that stop before the prompt *)

\* The steps of a run up to and including the computation of the ranks.
ReadPhase == {"connect", "query", "limit", "empty", "ranks"}

\* C16: with position after and at least one candidate, if no live row has
\* the anchor title as its series title or name, the run reports the
\* anchor-not-found error and ends with no row changed, no backup made and
\* no confirmation prompt issued.
C16_AnchorNotFound ==
    args.position = "after" /\ NamedBefore = {} =>
        /\ pc \in ReadPhase \cup {"done"}
        /\ pc = "done" /\ to_promote # <<>> => outcome = "rank_error"
        /\ NothingWritten
        /\ NoBackupMade
        /\ ~HasEvent("prompt")

\* A run with candidates ended on the missing anchor, the anchor title
\* being carried by rows that are not live.
C16_Witness ==
    /\ outcome = "rank_error"
    /\ to_promote # <<>>
    /\ \E i \in IDs \ LiveBefore : before[i].SeriesTitle = args.after_title

\* C17: when the filter selects no row, the run reports that nothing
\* matched and stops: no ranks computed, no prompt, no backup, no row
\* changed, and no error, a missing anchor included.
C17_NoMatches ==
    {i \in IDs : FilterHolds(args, before[i])} = {} =>
        /\ pc \in (ReadPhase \ {"ranks"}) \cup {"done"}
        /\ pc = "done" /\ outcome \notin {"connect_error", "query_error"}
              => outcome = "no_match"
        /\ ranks = <<>>
        /\ NothingWritten
        /\ NoBackupMade
        /\ ~HasEvent("prompt")

\* A run that found nothing to promote and whose anchor title no live row
\* carries ended with the no-match report.
C17_Witness ==
    /\ outcome = "no_match"
    /\ args.position = "after"
    /\ NamedBefore = {}

-----------------------------------------------------------------------------
(* main: validation of the options and of the --since token *)

\* position after without an anchor title, or no filter and no --all.
BadOptions ==
    \/ args.position = "after" /\ args.after_title = NULL
    \/ /\ args.title = <<>>
       /\ args.since = NULL
       /\ ~args.movies_only
       /\ ~args.include_partial
       /\ ~args.all

\* main has gone past its two checks of the options.
PastValidation == pc \notin {"analyze", "elevate", "validate"}

\* The invocation ended on the usage error with no process killed, the
\* database not opened and no row read or changed.
RejectedUntouched ==
    /\ pc = "done"
    /\ outcome = "usage_error"
    /\ ~HasEvent("kill")
    /\ ~HasEvent("analyze")
    /\ to_promote = <<>>
    /\ NothingWritten

\* C18, as the specification words it: every invocation with position
\* after and no anchor title, or with no filter and no --all, is rejected
\* with an error before the database is opened, a process killed or a row
\* read or changed.
C18_OptionValidation == BadOptions /\ PastValidation => RejectedUntouched

\* C18, amended: the same for every invocation that reaches the checks,
\* that is one without --analyze and not relaunched for elevation; and
\* without --analyze no process is killed and no row is read or changed,
\* relaunched or not.
C18_OptionValidationAmended ==
    BadOptions /\ ~args.analyze =>
        /\ PastValidation /\ ~HasEvent("elevate") => RejectedUntouched
        /\ pc \in {"analyze", "elevate", "validate", "done"}
        /\ ~HasEvent("kill")
        /\ ~HasEvent("analyze")
        /\ to_promote = <<>>
        /\ NothingWritten

\* An invocation asking for position after without a title, and for
\* --kill, ended on the usage error.
C18_Witness ==
    /\ outcome = "usage_error"
    /\ args.kill
    /\ args.position = "after"
    /\ args.after_title = NULL

\* The token is, in any casing, a keyword of parse_since or one of its
\* aliases, or it is a date that strptime reads as %m-%d-%y.
AcceptedToken(tok) ==
    \/ \E k \in {Today, Yesterday, ThisWeek, ThisMonth}
                \cup WeekAliases \cup MonthAliases : EqualIgnoringCase(tok, k)
    \/ strptime(tok).ok

\* C19, as the specification words it: no token other than today,
\* yesterday, this-week, this-month or a valid MM-DD-YY date resolves to a
\* timestamp.
C19_SinceRejection ==
    args.since # NULL /\ args.since_dt # NULL =>
        \/ Val(args.since) \in {Today, Yesterday, ThisWeek, ThisMonth}
        \/ strptime(Val(args.since)).ok

\* C19, amended: parse_since fails exactly for the tokens that are not,
\* ignoring case, one of today, yesterday, this-week, week, w, this-month,
\* month, m, nor a valid date; such a token stops main, no other does.
C19_SinceRejectionAmended ==
    args.since # NULL =>
        /\ args.since_dt # NULL => AcceptedToken(Val(args.since))
        /\ outcome = "since_error" => ~AcceptedToken(Val(args.since))
        /\ ~AcceptedToken(Val(args.since)) =>
              pc \in {"analyze", "elevate", "validate", "since", "done"}

\* A token shaped like a date that names no day of the calendar was
\* rejected.
C19_Witness ==
    /\ outcome = "since_error"
    /\ args.since = Some(<<"0", "2", "-", "3", "0", "-", "0", "1">>)

-----------------------------------------------------------------------------
(* The rows of the table over many runs *)

\* The text is a stamp in the compact format, written by an earlier run.
IsStamp(text) == \E t \in Time : text = Some(FormatCompact(t))

\* C20: whatever runs follow one another (dry, declined, failed or
\* committed), no step creates or deletes a row of the table, and no step
\* changes a row's name, series title, season or episode.
C20_RowLifecycle ==
    [][/\ DOMAIN table' = DOMAIN table
       /\ DOMAIN work' = DOMAIN table
       /\ \A i \in DOMAIN table :
             /\ table'[i].Name = table[i].Name
             /\ table'[i].SeriesTitle = table[i].SeriesTitle
             /\ table'[i].Season = table[i].Season
             /\ table'[i].EpisodeNumber = table[i].EpisodeNumber]_vars

\* A run committed a promotion on a table in which an earlier run had
\* already promoted another row.
C20_Witness ==
    /\ outcome = "committed"
    /\ PromotedRows # {}
    /\ \E i \in IDs : before[i].Status = Queued /\ IsStamp(before[i].Updated)

-----------------------------------------------------------------------------
(* Where the promoted rows land in the queue *)

\* C21: at position beginning, once committed, the promoted rows sort
\* before every row that was live and before each other in candidate order:
\* read by ascending rank, an earlier candidate comes before a later one.
C21_BeginningOrder ==
    outcome = "committed" /\ args.position = "beginning" =>
        /\ \A k \in 1..Len(to_promote), i \in LiveBefore :
              table[to_promote[k]].Rank < before[i].Rank
        /\ \A j, k \in 1..Len(to_promote) :
              j < k => table[to_promote[j]].Rank < table[to_promote[k]].Rank

\* C22: at position after, once committed, every new rank lies strictly
\* above the anchor's rank and strictly below the rank of every live row
\* that followed the anchor, and no other row's rank has changed; this
\* after any sequence of earlier runs.
C22_AfterPlacement ==
    outcome = "committed" /\ args.position = "after" =>
        \E a \in NamedBefore :
            /\ \A b \in NamedBefore : before[b].Rank <= before[a].Rank
            /\ \A p \in Candidates :
                  /\ table[p].Rank > before[a].Rank
                  /\ \A s \in LiveBefore :
                        before[s].Rank > before[a].Rank
                            => table[p].Rank < before[s].Rank
            /\ \A i \in IDs \ Candidates : table[i].Rank = before[i].Rank

\* Tables that differ from t only in the ranks and titles of rows that are
\* neither Queued nor Active: one such row, or all of them alike, given any
\* of the ranks, and its own titles or the anchor title in their place.
TerminalVariants(t) ==
    LET terminal == {i \in IDs : t[i].Status \notin {Queued, Active}}
    IN  {[i \in IDs |->
            IF i \in changed
            THEN [t[i] EXCEPT !.Rank = rk,
                              !.SeriesTitle = IF named THEN args.after_title
                                              ELSE @,
                              !.Name = IF named THEN args.after_title ELSE @]
            ELSE t[i]] :
         changed \in {{i} : i \in terminal} \cup {terminal},
         rk \in RankChoices, named \in BOOLEAN}

\* C23: the ranks compute_insert_ranks returns, and whether it finds the
\* anchor, depend only on the rows that are Queued or Active: every table
\* that differs only in the ranks or titles of Partial and Failed rows
\* gives the same result, for every position and count.
C23_TerminalRowsIgnored ==
    RanksComputed \/ outcome = "rank_error" =>
        \A t2 \in TerminalVariants(before) :
            LET r == compute_insert_ranks(t2, Len(to_promote), args.position,
                                          args.after_title)
            IN  /\ r.ok = RanksComputed
                /\ r.ok => r.ranks = ranks

\* Ranks were computed after an anchor while a failed row carrying the
\* anchor title holds a rank above every live row of that title.
C23_Witness ==
    /\ RanksComputed
    /\ args.position = "after"
    /\ \E f \in IDs \ LiveBefore :
          /\ before[f].SeriesTitle = args.after_title
          /\ \A a \in NamedBefore : before[f].Rank > before[a].Rank

\* C24: candidates are taken most recently updated first and ranks are
\* given in that order: at position end, once committed, a promoted row
\* whose updated_at was strictly later than another's has the strictly
\* smaller new rank.
C24_RecencyOrder ==
    outcome = "committed" /\ args.position = "end" =>
        \A p, q \in Candidates :
            InstantOf(before[p].Updated) > InstantOf(before[q].Updated)
                => table[p].Rank < table[q].Rank

\* Two rows updated at different instants were promoted to the end.
C24_Witness ==
    /\ outcome = "committed"
    /\ args.position = "end"
    /\ \E p, q \in Candidates :
          /\ InstantOf(before[p].Updated) > InstantOf(before[q].Updated)
          /\ table[p].Status = Queued
          /\ table[q].Status = Queued

-----------------------------------------------------------------------------
(* What a run writes and prints *)

\* The text is a timestamp in the table's format.
IsTableFormat(text) == \E t \in Time : text = Some(FormatDashed(t))

\* C25: every updated_at and queued-at value a committed run has written
\* is text in the table's format YYYY-MM-DD HH:MM:SS, the format in which
\* build_where renders the since bound.
C25_TimestampFormat ==
    outcome = "committed" =>
        \A p \in Candidates :
            /\ IsTableFormat(table[p].Updated)
            /\ IsTableFormat(table[p].Queued)

\* C26: a dry run with at least one candidate renders the current live
\* queue and every proposed (candidate, new rank) pair before it stops.
C26_DryRunReport ==
    outcome = "dry_run" /\ to_promote # <<>> =>
        LET report == DryRunReport(before, to_promote, ranks)
        IN  /\ HasEvent("report")
            /\ {report.queue[k] : k \in 1..Len(report.queue)} = LiveBefore
            /\ report.proposed
                  = [j \in 1..Len(to_promote) |-> <<to_promote[j], ranks[j]>>]

-----------------------------------------------------------------------------
(* The text of the predicate *)

\* The filter configurations that differ from a at most in the title
\* strings and in the value of the since bound.
SameStructure(a) ==
    {[a EXCEPT !.title = titles, !.since_dt = since] :
        titles \in [1..Len(a.title) -> UserTitles],
        since \in IF a.since_dt = NULL THEN {NULL}
                  ELSE {Some(t) : t \in Time}}

\* C27: the predicate text build_where returns depends only on
\* include_partial, the number of titles, movies_only and the presence of
\* a since bound: configurations that differ only in title strings or in
\* the since value give the same text, and the values are found in the
\* parameter list executed with it.
C27_NoInjection ==
    pc = "limit" =>
        LET codes == IF args.include_partial THEN 2 ELSE 1
            text == WhereClauses(args)
            params == WhereParams(args)
            texts == SubSeq(params, codes + 1, Len(params))
        IN  /\ \A b \in SameStructure(args) : WhereClauses(b) = text
            /\ build_where(args) = [clauses |-> text, params |-> params]
            /\ \A k \in 1..Len(args.title) :
                  \E j \in 1..Len(texts) : texts[j] = PyLower(args.title[k])
            /\ args.since_dt # NULL =>
                  texts[Len(texts)] = FormatDashed(Val(args.since_dt))

\* The query ran with a title and a since bound in its parameters.
C27_Witness ==
    /\ pc = "limit"
    /\ args.title # <<>>
    /\ args.since_dt # NULL
    /\ \E b \in SameStructure(args) :
          /\ b.title # args.title
          /\ b.since_dt # args.since_dt

-----------------------------------------------------------------------------
(* Other writers *)

\* C28: from the candidate query until the commit or abort, the prompt
\* included, no other writer changes a row of the table: the committed
\* table stays as it was read, and every row the run updates still has
\* the status that was read.
C28_ExclusiveAccess ==
    /\ pc \in {"limit", "empty", "ranks", "dry", "prompt", "decide", "backup",
               "stamp", "begin", "update", "rollback"} => table = before
    /\ outcome = "committed" =>
          \A i \in IDs \ Candidates : table[i] = before[i]

\* C29: in every run, each row that is not among the candidates left after
\* the limit (live rows, rows the filter does not match, matching rows the
\* limit cut off) keeps its status, rank, error, updated_at and queued-at;
\* before the candidates are known no row has changed at all.
C29_OthersUntouched ==
    /\ pc \in {"connect", "query", "limit"} => table = before /\ work = before
    /\ pc \notin {"connect", "query", "limit"} =>
          \A i \in IDs \ Candidates :
              /\ Written(table[i]) = Written(before[i])
              /\ Written(work[i]) = Written(before[i])

\* A run committed while a live row and a matching row cut off by the
\* limit were in the table.
C29_Witness ==
    /\ outcome = "committed"
    /\ Candidates # {}
    /\ LiveBefore # {}
    /\ \E q \in IDs \ Candidates : FilterHolds(args, before[q])

-----------------------------------------------------------------------------
(* The same command given twice *)

\* The options that select the rows.
FilterOptions(a) == <<a.title, a.since_dt, a.movies_only, a.include_partial>>

\* C30: when a confirmed run without limit has committed and the program
\* is started again at once with the same filter options, no row of the
\* table matches the filter any more, and a run that starts with no
\* matching row finds no candidate and changes no row.
C30_RerunIdempotent ==
    /\ [][(/\ pc = "done"
           /\ outcome = "committed"
           /\ args.limit = NULL
           /\ pc' = "connect"
           /\ FilterOptions(args') = FilterOptions(args))
             => {i \in IDs : FilterHolds(args', before'[i])} = {}]_vars
    /\ []({i \in IDs : FilterHolds(args, before[i])} = {}
             => to_promote = <<>> /\ table = before /\ work = before)

\* A run found nothing to promote on a table in which an earlier run had
\* promoted two rows at once and had left a row its filter did not select.
C30_Witness ==
    /\ outcome = "no_match"
    /\ {i \in IDs : FilterHolds(args, before[i])} = {}
    /\ \E i, j \in IDs :
          /\ i # j
          /\ IsStamp(before[i].Updated)
          /\ before[j].Updated = before[i].Updated
    /\ \E q \in IDs : before[q].Status \in {Partial, Failed}

-----------------------------------------------------------------------------
(* Ranks of the queue stay distinct *)

\* No two rows of t that are Queued or Active have the same rank.
DistinctLiveRanks(t) ==
    \A i, j \in IDs :
        /\ i # j
        /\ t[i].Status \in {Queued, Active}
        /\ t[j].Status \in {Queued, Active}
        => t[i].Rank # t[j].Rank

\* C31: if the ranks of the live rows are pairwise distinct before a
\* committed run at position beginning or end, the ranks of the live rows,
\* old and newly promoted, are pairwise distinct after it; this for every
\* run of any sequence of runs.
C31_RankUniqueness ==
    /\ outcome = "committed"
    /\ args.position \in {"beginning", "end"}
    /\ DistinctLiveRanks(before)
    => DistinctLiveRanks(table)

\* A run at the beginning or the end promoted two rows at once into a
\* queue of distinct ranks that an earlier run had already added to.
C31_Witness ==
    /\ outcome = "committed"
    /\ args.position \in {"beginning", "end"}
    /\ DistinctLiveRanks(before)
    /\ \E i \in LiveBefore : IsStamp(before[i].Updated)
    /\ \E p, q \in PromotedRows : p # q

====
